---- MODULE Spec2Model ----
(***************************************************************************)
(* Model of crewai.crew.Crew (src/src/crewai/crew.py): construction-time   *)
(* validation of a task list, the dispatch loop of a live run              *)
(* (_execute_tasks), the flush of pending asynchronous tasks               *)
(* (_process_async_tasks), the execution log (_store_execution_log) and    *)
(* replay_from_task.                                                       *)
(*                                                                         *)
(* Conventions.  Positions are 1-based here (position p of the model is    *)
(* index p-1 of the Python list).  A task is identified by its position in *)
(* Crew.tasks (tasks are distinct objects); context reference 0 stands for *)
(* a Task object that is not in Crew.tasks.  Agent 0 stands for None.      *)
(* A TaskOutput is the record of what produced it: agents are              *)
(* deterministic, so the raw text is a function of the task description    *)
(* (task and interpolated inputs), the acting agent, the context and the   *)
(* tool set handed to the agent, and two outputs are equal exactly when    *)
(* these are.                                                              *)
(***************************************************************************)
EXTENDS Naturals, Integers, Sequences, FiniteSets, TLC

\* ---------------------------------------------------------------- bounds
MaxTasks == 3
MaxAgents == 2
MaxCtxRefs == 1
MaxOps == 2
MaxCount == 1
MaxInputs == 2
MaxBatchTasks == 2

VARIABLES
    \* ---- constructor arguments (Crew fields)
    process,          \* Crew.process
    tasks,            \* Crew.tasks: sequence of [async_execution, agent, context]
    agents,           \* Crew.agents: sequence of agent ids
    allow_delegation, \* agent id -> BaseAgent.allow_delegation
    manager_llm,      \* Crew.manager_llm is set
    manager_arg,      \* the manager_agent argument: [agent (0 = None), tools]
    max_rpm,          \* Crew.max_rpm is set
    token_process,    \* agent id -> the summary its _token_process reports
    manager_agent,    \* Crew.manager_agent (0 = None)
    manager_tools,    \* manager_agent.tools
    \* ---- crew object state
    status,           \* "new", "ok", or the error raised by construction
    task_tools,       \* position -> Task.tools
    task_output,      \* position -> Task.output (NoOutput = None)
    crew_inputs,      \* Crew._inputs
    interpolated,     \* inputs last interpolated into descriptions
    execution_logs,   \* Crew.execution_logs
    file_log,         \* content of CREW_TASKS_OUTPUT_FILE
    \* ---- one call of kickoff / replay_from_task
    pc,               \* control position of the call
    mode,             \* "live" (kickoff) or "replay" (replay_from_task)
    task_index,       \* loop variable of the dispatch loop
    start_index,      \* replay_from_task: start_index
    task_outputs,     \* local task_outputs (rolling result list)
    futures,          \* local futures: pending (task, future, task_index)
    flushed,          \* _process_async_tasks: local task_outputs, built so far
    crew_output,      \* the CrewOutput returned (final task output)
    crew_token_usage, \* CrewOutput.token_usage (<<>> = nothing returned)
    crew_tasks_output,\* CrewOutput.tasks_output
    usage_metrics,    \* Crew.usage_metrics (<<>> = None)
    rpm_stops,        \* calls of _rpm_controller.stop_rpm_counter() in this call
    error,            \* the exception the last call raised ("" = none)
    \* ---- history
    calls_left,       \* kickoff / replay_from_task calls the caller still makes
    clock,            \* number of log writes so far (datetime.now())
    events,           \* dispatches and failures of the current call, in order
    run_events,       \* events of the live run that wrote the log, once complete
    before,           \* log file and clock when the current call started, the
                      \* arguments of that call, and whether the object was
                      \* as constructed then
    first_run,        \* inputs and tasks_output of the first run completed on
                      \* an object as constructed (<<>> = none yet)
    \* ---- kickoff_for_each_async
    batch_inputs,     \* the inputs argument (<<>> = no batch call made)
    peers             \* the runs the call started besides the one followed
                      \* here: [copy, input, pc, next]

config_vars == <<process, tasks, agents, allow_delegation, manager_llm, manager_arg,
                 max_rpm, token_process>>

crew_vars == <<manager_agent, manager_tools, task_tools, task_output,
               crew_inputs, interpolated, execution_logs, file_log>>

call_vars == <<pc, mode, task_index, start_index, task_outputs, futures,
               flushed, crew_output, error>>

hist_vars == <<calls_left, clock, events, run_events, before>>

result_vars == <<crew_token_usage, crew_tasks_output, usage_metrics, rpm_stops,
                 first_run>>

batch_vars == <<batch_inputs, peers>>

vars == <<config_vars, crew_vars, status, call_vars, hist_vars, result_vars,
          batch_vars>>

\* ------------------------------------------------------------ data model
sequential == "sequential"
hierarchical == "hierarchical"

\* Id of a manager agent supplied by the caller that is not one of the workers.
SuppliedManager == MaxAgents + 1
\* Id of the manager Agent that manager assembly creates when none is supplied.
DefaultManager == MaxAgents + 2

\* Id of an agent that is assigned to a task without being in the agents list.
Outsider == MaxAgents + 3

\* None for Optional[Dict] inputs, the empty dict, and non-empty bindings.
NoInputs == "None"
EmptyInputs == "{}"

\* Task.output = None.
NoOutput == [description |-> <<0, NoInputs>>, agent |-> 0, raw |-> <<>>]

Positions(ts) == 1..Len(ts)

\* --------------------------------------------------- construction (validators)
\* check_manager_llm
check_manager_llm(proc, llm, mgr, ags) ==
    IF proc = hierarchical
    THEN IF ~llm /\ mgr = 0
         THEN "missing_manager_llm_or_manager_agent"
         ELSE IF mgr # 0 /\ (\E k \in 1..Len(ags) : ags[k] = mgr)
              THEN "manager_agent_in_agents"
              ELSE "ok"
    ELSE "ok"

\* check_config, for a crew built from agents and tasks (config = None)
check_config(ts, ags) ==
    IF Len(ts) = 0 /\ Len(ags) = 0 THEN "missing_keys" ELSE "ok"

validate_tasks_mutant(proc, ts) ==
    IF proc = sequential /\ Len(ts) > 0 /\ ts[1].agent = 0
    THEN "missing_agent_in_task"
    ELSE "ok"

\* validate_tasks
validate_tasks(proc, ts) ==
    IF proc = sequential /\ (\E i \in Positions(ts) : ts[i].agent = 0)
    THEN "missing_agent_in_task"
    ELSE "ok"

check_tasks_in_hierarchical_process_not_async_mutant(proc, ts) ==
    IF \E i \in Positions(ts) : ts[i].async_execution
    THEN "async_execution_in_hierarchical_process"
    ELSE "ok"

\* check_tasks_in_hierarchical_process_not_async
check_tasks_in_hierarchical_process_not_async(proc, ts) ==
    IF proc = hierarchical /\ (\E i \in Positions(ts) : ts[i].async_execution)
    THEN "async_execution_in_hierarchical_process"
    ELSE "ok"

\* The backward traversal of validate_end_with_at_most_one_async_task: the
\* number of asynchronous tasks met from position i downward before the first
\* synchronous one.
RECURSIVE final_async_task_count(_, _)
final_async_task_count(ts, i) ==
    IF i = 0 THEN 0
    ELSE IF ts[i].async_execution
         THEN 1 + final_async_task_count(ts, i - 1)
         ELSE 0

final_async_limit_mutant(n) == n > 2

final_async_limit(n) == n > 1

\* validate_end_with_at_most_one_async_task
validate_end_with_at_most_one_async_task(ts) ==
    IF final_async_limit(final_async_task_count(ts, Len(ts)))
    THEN "async_task_count"
    ELSE "ok"

scan_break_mutant(ts, j) == FALSE

\* The break of the inner loop: the scan stops below a synchronous task.
scan_break(ts, j) == ~ts[j].async_execution

\* The inner loop `for j in range(i - 1, -1, -1)` of
\* validate_async_task_cannot_include_sequential_async_tasks_in_context:
\* TRUE when the scan from j downward raises for context task c.
RECURSIVE async_scan_raises(_, _, _)
async_scan_raises(ts, c, j) ==
    IF j = 0 THEN FALSE
    ELSE IF j = c THEN TRUE
         ELSE IF scan_break(ts, j) THEN FALSE
              ELSE async_scan_raises(ts, c, j - 1)

\* validate_async_task_cannot_include_sequential_async_tasks_in_context
validate_async_task_cannot_include_sequential_async_tasks_in_context(ts) ==
    IF \E i \in Positions(ts) :
          /\ ts[i].async_execution
          /\ ts[i].context # {}
          /\ \E c \in ts[i].context :
                /\ c \in Positions(ts)
                /\ ts[c].async_execution
                /\ async_scan_raises(ts, c, i - 1)
    THEN "async_context_error"
    ELSE "ok"

future_task_mutant(ci, ti) == ci >= ti

\* The comparison of validate_context_no_future_tasks.
future_task(ci, ti) == ci > ti

\* validate_context_no_future_tasks
validate_context_no_future_tasks(ts) ==
    IF \E i \in Positions(ts) :
          \E c \in ts[i].context :
             /\ c \in Positions(ts)
             /\ future_task(c, i)
    THEN "future_context_error"
    ELSE "ok"

\* The model validators in the order pydantic runs them (definition order);
\* the first one that raises aborts construction.
RECURSIVE first_error(_, _)
first_error(verdicts, k) ==
    IF k > Len(verdicts) THEN "ok"
    ELSE IF verdicts[k] # "ok" THEN verdicts[k]
         ELSE first_error(verdicts, k + 1)

validators(proc, llm, mgr, ags, ts) ==
    << check_manager_llm(proc, llm, mgr, ags),
       check_config(ts, ags),
       validate_tasks(proc, ts),
       check_tasks_in_hierarchical_process_not_async(proc, ts),
       validate_end_with_at_most_one_async_task(ts),
       validate_async_task_cannot_include_sequential_async_tasks_in_context(ts),
       validate_context_no_future_tasks(ts) >>

construct(proc, llm, mgr, ags, ts) ==
    first_error(validators(proc, llm, mgr, ags, ts), 1)

\* ------------------------------------------------------------- the engine
\* BaseAgent.get_delegation_tools(agents): one capability per addressable agent.
get_delegation_tools(targets) ==
    [k \in 1..Len(targets) |-> [delegate_to |-> targets[k]]]

agents_for_delegation_mutant(ags, a) == ags

\* agents_for_delegation = [agent for agent in self.agents if agent != task.agent]
agents_for_delegation(ags, a) == SelectSeq(ags, LAMBDA x : x # a)

\* Task.tools after the worker wiring at the top of a loop iteration.
wire_task_tools(i) ==
    LET a == tasks[i].agent
        targets == agents_for_delegation(agents, a)
    IN  IF a # 0 /\ allow_delegation[a] /\ Len(agents) > 1 /\ Len(targets) > 0
        THEN task_tools[i] \o get_delegation_tools(targets)
        ELSE task_tools[i]

\* manager.tools after the hierarchical wiring of a loop iteration.
wire_manager_tools(mgr, i) ==
    LET first == IF tasks[i].agent # 0 /\ mgr # 0
                 THEN get_delegation_tools(<<tasks[i].agent>>)
                 ELSE manager_tools
    IN  IF process = hierarchical
        THEN IF mgr # 0 THEN get_delegation_tools(agents) ELSE first
        ELSE manager_tools

\* agent.tools: workers carry no tools of their own (the default), the
\* manager carries manager.tools.
agent_tools(a, mtools) == IF a # 0 /\ a = manager_agent THEN mtools ELSE <<>>

\* A choice that ignores the agent assigned to the task.
agent_to_use_mutant(i, mgr) == mgr

\* agent_to_use = task.agent if task.agent else manager
agent_to_use(i, mgr) == IF tasks[i].agent # 0 THEN tasks[i].agent ELSE mgr

\* The local `manager` of _execute_tasks: passed only by the hierarchical run.
live_manager == IF process = hierarchical THEN manager_agent ELSE 0

\* The TaskOutput a deterministic agent returns for a dispatch.
execute(i, a, ctx, tools) ==
    [description |-> <<i, interpolated>>,
     agent |-> a,
     raw |-> << <<i, interpolated>>, a, ctx, tools >>]

RECURSIVE Ascending(_)
Ascending(S) ==
    IF S = {} THEN <<>>
    ELSE LET m == CHOOSE x \in S : \A y \in S : x <= y
         IN  <<m>> \o Ascending(S \ {m})

\* formatter.aggregate_raw_outputs_from_task_outputs
aggregate_raw_outputs_from_task_outputs(outs) ==
    [k \in 1..Len(outs) |-> outs[k].raw]

\* formatter.aggregate_raw_outputs_from_tasks: the raw outputs of the context
\* tasks that have an output.
aggregate_raw_outputs_from_tasks(ctx) ==
    LET have == {c \in ctx : c \in Positions(tasks) /\ task_output[c] # NoOutput}
        order == Ascending(have)
    IN  [k \in 1..Len(order) |-> task_output[order[k]].raw]

\* _set_context
set_context(i, outs) ==
    IF tasks[i].context # {}
    THEN aggregate_raw_outputs_from_tasks(tasks[i].context)
    ELSE aggregate_raw_outputs_from_task_outputs(outs)

barrier_mutant(fs) == "exec"

\* `if futures:` before a synchronous task: pending handles are flushed first.
barrier(fs) == IF fs # <<>> THEN "flush" ELSE "exec"

propagate_mutant == "loop"

\* No handler surrounds execute_sync: an agent error leaves the call.
propagate == "failed"

roll_after_sync_mutant(outs, out) == Append(outs, out)

\* task_outputs = [task_output]
roll_after_sync(outs, out) == <<out>>

log_entry_mutant(i, out, idx, replayed) ==
    [task_id |-> i,
     output |-> out,
     task_index |-> idx,
     inputs |-> IF crew_inputs \in {NoInputs, EmptyInputs}
                THEN EmptyInputs ELSE crew_inputs,
     timestamp |-> clock + 1,
     was_replayed |-> FALSE]

\* The log dict _store_execution_log builds.
log_entry(i, out, idx, replayed) ==
    [task_id |-> i,
     output |-> out,
     task_index |-> idx,
     inputs |-> IF crew_inputs \in {NoInputs, EmptyInputs}
                THEN EmptyInputs ELSE crew_inputs,
     timestamp |-> clock + 1,
     was_replayed |-> replayed]

\* execution_logs[task_index] = log if task_index < len(...) else append
logs_update(log, idx, entry) ==
    IF idx <= Len(log) THEN [log EXCEPT ![idx] = entry] ELSE Append(log, entry)

\* TaskOutputJsonHandler.update(task_index, log): overwrite-or-append at index.
file_update(log, idx, entry) ==
    IF idx <= Len(log) THEN [log EXCEPT ![idx] = entry] ELSE Append(log, entry)

\* A store that always appends.
store_execution_log_mutant(i, out, idx, replayed) ==
    /\ execution_logs' = Append(execution_logs, log_entry(i, out, idx, replayed))
    /\ file_log' = Append(file_log, log_entry(i, out, idx, replayed))
    /\ clock' = clock + 1

\* _store_execution_log
store_execution_log(i, out, idx, replayed) ==
    /\ execution_logs' = logs_update(execution_logs, idx, log_entry(i, out, idx, replayed))
    /\ file_log' = file_update(file_log, idx, log_entry(i, out, idx, replayed))
    /\ clock' = clock + 1

\* An assembly that accepts a manager whatever tools it carries.
create_manager_agent_mutant(mgr, mtools) ==
    [raised |-> FALSE, agent |-> IF mgr # 0 THEN mgr ELSE DefaultManager,
     tools |-> get_delegation_tools(agents)]

\* Manager assembly (_run_hierarchical_process, _create_manager_agent).
create_manager_agent(mgr, mtools) ==
    IF mgr # 0
    THEN IF Len(mtools) > 0
         THEN [raised |-> TRUE, agent |-> mgr, tools |-> mtools]
         ELSE [raised |-> FALSE, agent |-> mgr, tools |-> get_delegation_tools(agents)]
    ELSE [raised |-> FALSE, agent |-> DefaultManager,
          tools |-> get_delegation_tools(agents)]

Dispatch(kind, i, a, ctx, tools) ==
    [kind |-> kind, task |-> i, inputs |-> interpolated, agent |-> a,
     context |-> ctx, tools |-> tools]

Failure(i) == Dispatch("failed", i, 0, <<>>, <<>>)

NoCall == pc \in {"idle", "done", "failed"}

\* The keys of a usage summary.
UsageKeys == {"total_tokens", "prompt_tokens", "completion_tokens",
              "successful_requests"}

ZeroUsage == [key \in UsageKeys |-> 0]

\* for agent in ags: total_usage_metrics[key] += token_sum.get(key, 0)
RECURSIVE sum_usage(_, _)
sum_usage(ags, k) ==
    IF k > Len(ags) THEN ZeroUsage
    ELSE [key \in UsageKeys |->
             token_process[ags[k]][key] + sum_usage(ags, k + 1)[key]]

\* calculate_usage_metrics: the agents of the crew, and the manager agent
\* when the crew has one.
calculate_usage_metrics ==
    IF manager_agent # 0
    THEN [key \in UsageKeys |->
             sum_usage(agents, 1)[key] + token_process[manager_agent][key]]
    ELSE sum_usage(agents, 1)

\* The end of kickoff: metrics is the list of the summaries of self.agents,
\* usage_metrics the sum of each key over it.
kickoff_usage_metrics == sum_usage(agents, 1)

\* _finish_execution: if self.max_rpm: self._rpm_controller.stop_rpm_counter()
finish_execution(n) == IF max_rpm THEN n + 1 ELSE n

\* Every field of the object has the value construction gave it.
AsConstructed ==
    /\ manager_agent = manager_arg.agent
    /\ manager_tools = manager_arg.tools
    /\ \A i \in Positions(tasks) : task_tools[i] = <<>> /\ task_output[i] = NoOutput
    /\ crew_inputs = NoInputs
    /\ interpolated = NoInputs
    /\ execution_logs = <<>>
    /\ usage_metrics = <<>>

\* The inputs a caller passes to kickoff.
KickoffInputs == {NoInputs, "x"}

\* kickoff, up to the first iteration of the dispatch loop.
Kickoff(inp) ==
    /\ status = "ok"
    /\ NoCall
    /\ calls_left > 0
    /\ calls_left' = calls_left - 1
    /\ file_log' = <<>>
    /\ crew_inputs' = IF inp # NoInputs THEN inp ELSE crew_inputs
    /\ interpolated' = IF inp # NoInputs THEN inp ELSE interpolated
    /\ execution_logs' = <<>>
    /\ mode' = "live"
    /\ task_index' = 1
    /\ start_index' = 0
    /\ task_outputs' = <<>>
    /\ futures' = <<>>
    /\ flushed' = <<>>
    /\ crew_output' = NoOutput
    /\ events' = <<>>
    /\ IF process = hierarchical
       THEN LET m == create_manager_agent(manager_agent, manager_tools)
            IN  /\ manager_agent' = m.agent
                /\ manager_tools' = m.tools
                /\ pc' = IF m.raised THEN "failed" ELSE "loop"
                /\ error' = IF m.raised THEN "manager_has_tools" ELSE ""
       ELSE /\ pc' = "loop"
            /\ error' = ""
            /\ UNCHANGED <<manager_agent, manager_tools>>
    /\ run_events' = <<>>
    /\ before' = [file_log |-> file_log, clock |-> clock, task_id |-> 0,
                  inputs |-> inp, fresh |-> AsConstructed]
    /\ crew_token_usage' = <<>>
    /\ crew_tasks_output' = <<>>
    /\ rpm_stops' = 0
    /\ UNCHANGED <<config_vars, status, task_tools, task_output, clock,
                   usage_metrics, first_run, batch_vars>>

\* A dispatch that blocks until the agent has returned.
execute_async_mutant(fs, i, a, ctx, tools) ==
    Append(fs, [task |-> i, task_index |-> i, state |-> "done", finished |-> 0,
                result |-> execute(i, a, ctx, tools)])

\* future = task.execute_async(...); futures.append((task, future, task_index)):
\* the thread is started and its handle joins the pending buffer.
execute_async(fs, i, a, ctx, tools) ==
    Append(fs, [task |-> i, task_index |-> i, state |-> "running", finished |-> 0,
                result |-> execute(i, a, ctx, tools)])

\* One iteration of the dispatch loop of _execute_tasks, up to the dispatch of
\* an asynchronous task or to the barrier of a synchronous one.
ExecuteTasksStep ==
    /\ pc = "loop"
    /\ mode = "live"
    /\ task_index <= Len(tasks)
    /\ LET i == task_index
           mtools == wire_manager_tools(live_manager, i)
           a == agent_to_use(i, live_manager)
           ctx == set_context(i, task_outputs)
           tools == agent_tools(a, mtools)
       IN  /\ task_tools' = [task_tools EXCEPT ![i] = wire_task_tools(i)]
           /\ manager_tools' = mtools
           /\ IF tasks[i].async_execution
              THEN /\ IF a # 0
                      THEN /\ futures' = execute_async(futures, i, a, ctx, tools)
                           /\ events' = Append(events, Dispatch("async", i, a, ctx, tools))
                      ELSE UNCHANGED <<futures, events>>
                   /\ task_index' = i + 1
                   /\ pc' = "loop"
              ELSE /\ pc' = barrier(futures)
                   /\ UNCHANGED <<futures, events, task_index>>
    /\ UNCHANGED <<result_vars, batch_vars,
                   config_vars, status, manager_agent, task_output, crew_inputs,
                   interpolated, execution_logs, file_log, mode, start_index,
                   task_outputs, flushed, crew_output, error, calls_left, clock, run_events, before>>

\* The thread of an asynchronous task ends: its agent returned (Task.output is
\* set and the future resolves) or failed.  finished is the rank of the thread
\* among those of the batch, in the order in which they end.
AsyncFinish(k, ok) ==
    /\ k \in 1..Len(futures)
    /\ futures[k].state = "running"
    /\ futures' = [futures EXCEPT
                      ![k].state = IF ok THEN "done" ELSE "failed",
                      ![k].finished = 1 + Cardinality({j \in 1..Len(futures) :
                                                         futures[j].state # "running"})]
    /\ task_output' = IF ok
                      THEN [task_output EXCEPT ![futures[k].task] = futures[k].result]
                      ELSE task_output
    /\ events' = IF ok THEN events ELSE Append(events, Failure(futures[k].task))
    /\ UNCHANGED <<result_vars, batch_vars,
                   config_vars, status, manager_agent, manager_tools, task_tools,
                   crew_inputs, interpolated, execution_logs, file_log, pc, mode,
                   task_index, start_index, task_outputs, flushed, crew_output,
                   error, calls_left, clock, run_events, before>>

\* A flush that takes the results in the order in which the threads end.
next_future_mutant(fs, fl) ==
    LET unflushed == {k \in 1..Len(fs) :
                         \A j \in 1..Len(fl) : fl[j].description[1] # fs[k].task}
        ended == {k \in unflushed : fs[k].state # "running"}
    IN  IF ended = {} THEN Len(fl) + 1
        ELSE CHOOSE k \in ended : \A j \in ended : fs[k].finished <= fs[j].finished

\* for future_task, future, task_index in futures: the handle the loop of
\* _process_async_tasks is at, in the order of the list.
next_future(fs, fl) == Len(fl) + 1

\* A handle that yields its result whether its thread returned or failed.
future_result_mutant(f) == [raised |-> FALSE, output |-> f.result]

\* future.result() of a handle whose thread has ended: the TaskOutput, or the
\* exception the thread ended with.
future_result(f) == [raised |-> f.state = "failed", output |-> f.result]

\* One iteration of the loop of _process_async_tasks: future.result() of the
\* next pending handle, in the order of the futures list; after the last one
\* the call returns the outputs it collected.
ProcessAsyncTask ==
    /\ pc \in {"flush", "final_flush"}
    /\ LET k == next_future(futures, flushed)
           f == futures[k]
       IN  /\ f.state # "running"
           /\ IF future_result(f).raised
              THEN /\ pc' = "failed"
                   /\ error' = "agent_error"
                   /\ UNCHANGED <<execution_logs, file_log, clock, flushed,
                                  task_outputs, futures>>
              ELSE /\ store_execution_log(f.task, f.result, f.task_index, mode = "replay")
                   /\ error' = error
                   /\ IF Len(flushed) + 1 = Len(futures)
                      THEN /\ task_outputs' = Append(flushed, f.result)
                           /\ flushed' = <<>>
                           /\ futures' = IF pc = "flush" THEN <<>> ELSE futures
                           /\ pc' = IF pc = "flush" THEN "exec" ELSE "finish"
                      ELSE /\ flushed' = Append(flushed, f.result)
                           /\ UNCHANGED <<task_outputs, futures, pc>>
    /\ UNCHANGED <<result_vars, batch_vars,
                   config_vars, status, manager_agent, manager_tools, task_tools,
                   task_output, crew_inputs, interpolated, mode, task_index,
                   start_index, crew_output, calls_left, events, run_events, before>>

\* The synchronous branch of _execute_tasks after the barrier: resolve the
\* context, execute_sync, roll the result list, store the log entry.
ExecuteSync(ok) ==
    /\ pc = "exec"
    /\ mode = "live"
    /\ LET i == task_index
           a == agent_to_use(i, live_manager)
           ctx == set_context(i, task_outputs)
           tools == agent_tools(a, manager_tools)
           out == execute(i, a, ctx, tools)
       IN  IF a = 0
           THEN /\ ok
                /\ task_index' = i + 1
                /\ pc' = "loop"
                /\ UNCHANGED <<task_output, task_outputs, execution_logs, file_log,
                               clock, events, error>>
           ELSE IF ok
                THEN /\ task_output' = [task_output EXCEPT ![i] = out]
                     /\ task_outputs' = roll_after_sync(task_outputs, out)
                     /\ store_execution_log(i, out, i, FALSE)
                     /\ events' = Append(events, Dispatch("sync", i, a, ctx, tools))
                     /\ task_index' = i + 1
                     /\ pc' = "loop"
                     /\ error' = error
                ELSE /\ events' = Append(Append(events, Dispatch("sync", i, a, ctx, tools)),
                                         Failure(i))
                     /\ pc' = propagate
                     /\ error' = "agent_error"
                     /\ UNCHANGED <<task_output, task_outputs, execution_logs,
                                    file_log, clock, task_index>>
    /\ UNCHANGED <<result_vars, batch_vars,
                   config_vars, status, manager_agent, manager_tools, task_tools,
                   crew_inputs, interpolated, mode, start_index, futures, flushed,
                   crew_output, calls_left, run_events, before>>

\* After the loop of _execute_tasks: flush what is still pending.
ExecuteTasksEnd ==
    /\ pc = "loop"
    /\ mode = "live"
    /\ task_index > Len(tasks)
    /\ pc' = IF futures # <<>> THEN "final_flush" ELSE "finish"
    /\ UNCHANGED <<result_vars, batch_vars,
                   config_vars, status, crew_vars, mode, task_index, start_index,
                   task_outputs, futures, flushed, crew_output, error, hist_vars>>

tasks_output_mutant == task_outputs

\* [task.output for task in self.tasks if task.output]
tasks_output == SelectSeq([i \in Positions(tasks) |-> task_output[i]],
                          LAMBDA o : o # NoOutput)

\* A finish that returns an empty result when no task produced one.
final_task_output_mutant(outs) ==
    [raised |-> FALSE, output |-> IF Len(outs) = 0 THEN NoOutput ELSE outs[1]]

\* final_task_output = task_outputs[0]: raises IndexError on an empty list.
final_task_output(outs) ==
    [raised |-> Len(outs) = 0, output |-> IF Len(outs) = 0 THEN NoOutput ELSE outs[1]]

\* The end of _execute_tasks (final_task_output = task_outputs[0],
\* _finish_execution, the CrewOutput) and the end of kickoff, which sums the
\* summaries of self.agents into usage_metrics (metrics[0] does not exist
\* when the crew has no agent) and returns the CrewOutput.
ExecuteTasksFinish ==
    /\ pc = "finish"
    /\ mode = "live"
    /\ IF final_task_output(task_outputs).raised
       THEN /\ pc' = "failed"
            /\ error' = "IndexError"
            /\ UNCHANGED <<crew_output, run_events, result_vars>>
       ELSE /\ rpm_stops' = finish_execution(rpm_stops)
            /\ IF Len(agents) = 0
               THEN /\ pc' = "failed"
                    /\ error' = "IndexError"
                    /\ UNCHANGED <<crew_output, run_events, crew_token_usage,
                                   crew_tasks_output, usage_metrics, first_run>>
               ELSE /\ pc' = "done"
                    /\ crew_output' = final_task_output(task_outputs).output
                    /\ crew_token_usage' = <<calculate_usage_metrics>>
                    /\ crew_tasks_output' = tasks_output
                    /\ usage_metrics' = <<kickoff_usage_metrics>>
                    /\ run_events' = events
                    /\ error' = ""
                    /\ first_run' = IF first_run = <<>> /\ before.fresh
                                    THEN <<[inputs |-> before.inputs,
                                            tasks_output |-> tasks_output]>>
                                    ELSE first_run
    /\ UNCHANGED <<config_vars, status, crew_vars, mode, task_index, start_index,
                   task_outputs, futures, flushed, calls_left, clock, events, before,
                   batch_vars>>

find_task_index_mutant(tid, stored, k) == IF Len(stored) > 0 THEN 1 ELSE 0

\* _find_task_index: the first stored entry with the task id (0 = None).
RECURSIVE find_task_index(_, _, _)
find_task_index(tid, stored, k) ==
    IF k > Len(stored) THEN 0
    ELSE IF stored[k].task_id = tid THEN k
         ELSE find_task_index(tid, stored, k + 1)

replay_inputs_mutant(inp, stored, start) ==
    IF inp \notin {NoInputs, EmptyInputs} THEN inp ELSE stored[start].inputs

\* replay_inputs = inputs if inputs is not None else stored[start].get("inputs", {})
replay_inputs(inp, stored, start) ==
    IF inp # NoInputs THEN inp ELSE stored[start].inputs

\* The inputs a caller passes to replay_from_task.
ReplayInputs == {NoInputs, EmptyInputs, "y"}

\* replay_from_task, up to the first task that is executed again: the lookup,
\* the inputs, manager assembly, and the iterations that skip the tasks before
\* start_index (their stored outputs seed Task.output and task_outputs).
ReplayFromTask(tid, inp) ==
    /\ status = "ok"
    /\ NoCall
    /\ calls_left > 0
    /\ calls_left' = calls_left - 1
    /\ mode' = "replay"
    /\ events' = <<>>
    /\ futures' = <<>>
    /\ flushed' = <<>>
    /\ crew_output' = NoOutput
    /\ LET stored == file_log
           start == find_task_index(tid, stored, 1)
       IN  IF start = 0
           THEN /\ pc' = "failed"
                /\ error' = "task_not_found"
                /\ UNCHANGED <<crew_inputs, interpolated, manager_agent, manager_tools,
                               task_output, task_outputs, task_index, start_index>>
           ELSE LET rin == replay_inputs(inp, stored, start)
                    m == IF process = hierarchical
                         THEN create_manager_agent(manager_agent, manager_tools)
                         ELSE [raised |-> FALSE, agent |-> manager_agent,
                               tools |-> manager_tools]
                    skipped == {i \in Positions(tasks) : i < start}
                IN  /\ crew_inputs' = rin
                    /\ interpolated' = IF rin \in {NoInputs, EmptyInputs}
                                       THEN interpolated ELSE rin
                    /\ manager_agent' = m.agent
                    /\ manager_tools' = m.tools
                    /\ start_index' = start
                    /\ IF m.raised
                       THEN /\ pc' = "failed"
                            /\ error' = "manager_has_tools"
                            /\ UNCHANGED <<task_output, task_outputs, task_index>>
                       ELSE /\ pc' = "loop"
                            /\ error' = ""
                            /\ task_index' = start
                            /\ task_output' =
                                  [i \in Positions(tasks) |->
                                      IF i \in skipped THEN stored[i].output
                                      ELSE task_output[i]]
                            /\ task_outputs' =
                                  IF skipped = {} THEN <<>>
                                  ELSE << stored[CHOOSE i \in skipped :
                                              \A j \in skipped : j <= i].output >>
    /\ before' = [file_log |-> file_log, clock |-> clock, task_id |-> tid,
                  inputs |-> inp, fresh |-> AsConstructed]
    /\ crew_token_usage' = <<>>
    /\ crew_tasks_output' = <<>>
    /\ rpm_stops' = 0
    /\ UNCHANGED <<config_vars, status, task_tools, execution_logs, file_log,
                   clock, run_events, usage_metrics, first_run, batch_vars>>

\* One iteration of the loop of replay_from_task for a task at or after
\* start_index, up to the dispatch of an asynchronous task or to the barrier
\* of a synchronous one.
ReplayStep ==
    /\ pc = "loop"
    /\ mode = "replay"
    /\ task_index <= Len(tasks)
    /\ LET i == task_index
           mtools == wire_manager_tools(manager_agent, i)
           a == agent_to_use(i, manager_agent)
           ctx == set_context(i, task_outputs)
           tools == wire_task_tools(i)
       IN  /\ task_tools' = [task_tools EXCEPT ![i] = tools]
           /\ manager_tools' = mtools
           /\ IF tasks[i].async_execution
              THEN /\ futures' = execute_async(futures, i, a, ctx, tools)
                   /\ events' = Append(events, Dispatch("async", i, a, ctx, tools))
                   /\ task_index' = i + 1
                   /\ pc' = "loop"
              ELSE /\ pc' = barrier(futures)
                   /\ UNCHANGED <<futures, events, task_index>>
    /\ UNCHANGED <<result_vars, batch_vars,
                   config_vars, status, manager_agent, task_output, crew_inputs,
                   interpolated, execution_logs, file_log, mode, start_index,
                   task_outputs, flushed, crew_output, error, calls_left, clock, run_events, before>>

\* The synchronous branch of replay_from_task after the barrier.
ReplaySync(ok) ==
    /\ pc = "exec"
    /\ mode = "replay"
    /\ LET i == task_index
           a == agent_to_use(i, manager_agent)
           ctx == set_context(i, task_outputs)
           tools == task_tools[i]
           out == execute(i, a, ctx, tools)
       IN  IF ok
           THEN /\ task_output' = [task_output EXCEPT ![i] = out]
                /\ task_outputs' = roll_after_sync(task_outputs, out)
                /\ store_execution_log(i, out, i, TRUE)
                /\ events' = Append(events, Dispatch("sync", i, a, ctx, tools))
                /\ task_index' = i + 1
                /\ pc' = "loop"
                /\ error' = error
           ELSE /\ events' = Append(Append(events, Dispatch("sync", i, a, ctx, tools)),
                                    Failure(i))
                /\ pc' = propagate
                /\ error' = "agent_error"
                /\ UNCHANGED <<task_output, task_outputs, execution_logs,
                               file_log, clock, task_index>>
    /\ UNCHANGED <<result_vars, batch_vars,
                   config_vars, status, manager_agent, manager_tools, task_tools,
                   crew_inputs, interpolated, mode, start_index, futures, flushed,
                   crew_output, calls_left, run_events, before>>

\* After the loop of replay_from_task: process any remaining async tasks.
ReplayEnd ==
    /\ pc = "loop"
    /\ mode = "replay"
    /\ task_index > Len(tasks)
    /\ pc' = IF futures # <<>> THEN "final_flush" ELSE "finish"
    /\ UNCHANGED <<result_vars, batch_vars,
                   config_vars, status, crew_vars, mode, task_index, start_index,
                   task_outputs, futures, flushed, crew_output, error, hist_vars>>

\* The end of replay_from_task: exactly one task output must be left.
ReplayFinish ==
    /\ pc = "finish"
    /\ mode = "replay"
    /\ IF Len(task_outputs) # 1
       THEN /\ pc' = "failed"
            /\ error' = "ValueError"
            /\ UNCHANGED <<crew_output, crew_token_usage, crew_tasks_output,
                           rpm_stops>>
       ELSE /\ pc' = "done"
            /\ rpm_stops' = finish_execution(rpm_stops)
            /\ crew_output' = task_outputs[1]
            /\ crew_token_usage' = <<calculate_usage_metrics>>
            /\ crew_tasks_output' = tasks_output
            /\ error' = ""
    /\ UNCHANGED <<config_vars, status, crew_vars, mode, task_index, start_index,
                   task_outputs, futures, flushed, hist_vars, usage_metrics,
                   first_run, batch_vars>>

\* A new process builds the crew again from the same arguments: every field
\* of the object is back at its constructed value, the log file stays.
NewProcess ==
    /\ status = "ok"
    /\ pc \in {"done", "failed"}
    /\ calls_left > 0
    /\ manager_agent' = manager_arg.agent
    /\ manager_tools' = manager_arg.tools
    /\ task_tools' = [i \in Positions(tasks) |-> <<>>]
    /\ task_output' = [i \in Positions(tasks) |-> NoOutput]
    /\ crew_inputs' = NoInputs
    /\ interpolated' = NoInputs
    /\ execution_logs' = <<>>
    /\ pc' = "idle"
    /\ mode' = "live"
    /\ task_index' = 0
    /\ start_index' = 0
    /\ task_outputs' = <<>>
    /\ futures' = <<>>
    /\ flushed' = <<>>
    /\ crew_output' = NoOutput
    /\ error' = ""
    /\ events' = <<>>
    /\ crew_token_usage' = <<>>
    /\ crew_tasks_output' = <<>>
    /\ usage_metrics' = <<>>
    /\ rpm_stops' = 0
    /\ UNCHANGED <<config_vars, status, file_log, calls_left, clock, run_events, before,
                   first_run, batch_vars>>

\* ------------------------------------------------------ configurations drawn
\* Sets of at most k context references <<task, referenced task>>.
RECURSIVE RefSets(_, _)
RefSets(pairs, k) ==
    IF k = 0 THEN {{}}
    ELSE LET P == RefSets(pairs, k - 1)
         IN  P \cup {r \cup {p} : r \in P, p \in pairs}

\* The task lists of length n with agents from agentChoices whose context
\* lists hold at most MaxCtxRefs references in total, each to a task of the
\* list (its own position and later ones included) or to a task outside it (0).
TaskLists(n, agentChoices) ==
    { [i \in 1..n |->
          [async_execution |-> f[i].async_execution,
           agent |-> f[i].agent,
           context |-> {p[2] : p \in {q \in R : q[1] = i}}]] :
        f \in [1..n -> [async_execution : BOOLEAN, agent : agentChoices]],
        R \in RefSets((1..n) \X (0..n), MaxCtxRefs) }

Roster(na) == [k \in 1..na |-> k]

\* The ids of the agents: the workers, a supplied manager, the default one.
AgentIds == 1..DefaultManager

\* No max_rpm (the default), and agents that report empty usage summaries.
PlainCrew ==
    /\ max_rpm = FALSE
    /\ token_process = [a \in AgentIds |-> ZeroUsage]

\* Crew field defaults for a freshly constructed object.
FreshCall ==
    /\ pc = "idle"
    /\ mode = "live"
    /\ task_index = 0
    /\ start_index = 0
    /\ task_outputs = <<>>
    /\ futures = <<>>
    /\ flushed = <<>>
    /\ crew_output = NoOutput
    /\ error = ""

FreshCrew ==
    /\ status = "new"
    /\ manager_agent = manager_arg.agent
    /\ manager_tools = manager_arg.tools
    /\ task_tools = [i \in Positions(tasks) |-> <<>>]
    /\ task_output = [i \in Positions(tasks) |-> NoOutput]
    /\ crew_inputs = NoInputs
    /\ interpolated = NoInputs
    /\ execution_logs = <<>>
    /\ file_log = <<>>
    /\ clock = 0
    /\ events = <<>>
    /\ run_events = <<>>
    /\ before = [file_log |-> <<>>, clock |-> 0, task_id |-> 0, inputs |-> NoInputs,
                 fresh |-> TRUE]
    /\ crew_token_usage = <<>>
    /\ crew_tasks_output = <<>>
    /\ usage_metrics = <<>>
    /\ rpm_stops = 0
    /\ first_run = <<>>
    /\ batch_inputs = <<>>
    /\ peers = <<>>
    /\ FreshCall

\* Constructor arguments for the validation specification: every topology,
\* manager and task-list combination within the bounds.
InitValidate ==
    /\ process \in {sequential, hierarchical}
    /\ manager_llm \in BOOLEAN
    /\ \E na \in 0..MaxAgents :
          /\ agents = Roster(na)
          /\ allow_delegation = [a \in 1..na |-> FALSE]
          /\ \E m \in {0, na, SuppliedManager} :
                manager_arg = [agent |-> m, tools |-> <<>>]
          /\ \E n \in 0..MaxTasks :
                tasks \in TaskLists(n, IF na = 0 THEN {0} ELSE {0, na})
    /\ calls_left = MaxOps
    /\ PlainCrew
    /\ FreshCrew

\* Crew(...): the model validators run; the object exists only if none raises.
Construct ==
    /\ status = "new"
    /\ status' = construct(process, manager_llm, manager_agent, agents, tasks)
    /\ UNCHANGED <<result_vars, batch_vars, config_vars, crew_vars, call_vars, hist_vars>>

NextValidate == Construct

SpecValidate == InitValidate /\ [][NextValidate]_vars

\* A tool of its own that a supplied manager agent may carry.
OwnTool == [delegate_to |-> 0]

\* Agent assignments of the engine specification: every task has the first
\* agent, the agents take the tasks in turn, or (no agent) none has one.
Assignments(n, na) ==
    { [i \in 1..n |-> 1], [i \in 1..n |-> ((i - 1) % na) + 1], [i \in 1..n |-> 0] }

\* Constructor arguments for the engine specification.
Init ==
    /\ process \in {sequential, hierarchical}
    /\ \E na \in 1..MaxAgents :
          /\ agents = Roster(na)
          /\ \E d \in BOOLEAN : allow_delegation = [a \in 1..na |-> d]
          /\ \E n \in 0..MaxTasks :
             \E asg \in Assignments(n, na) :
             \E fl \in [1..n -> BOOLEAN] :
             \E R \in RefSets((1..n) \X (1..n), MaxCtxRefs) :
                tasks = [i \in 1..n |->
                           [async_execution |-> fl[i],
                            agent |-> asg[i],
                            context |-> {p[2] : p \in {q \in R : q[1] = i}}]]
    /\ IF process = hierarchical
       THEN /\ \E m \in {0, SuppliedManager} :
               \E t \in {<<>>, <<OwnTool>>} :
                  /\ (m = 0 => t = <<>>)
                  /\ manager_arg = [agent |-> m, tools |-> t]
            /\ manager_llm = (manager_arg.agent = 0)
       ELSE /\ manager_arg = [agent |-> 0, tools |-> <<>>]
            /\ manager_llm = FALSE
    /\ calls_left = MaxOps
    /\ PlainCrew
    /\ FreshCrew

Next ==
    \/ Construct
    \/ \E inp \in KickoffInputs : Kickoff(inp)
    \/ ExecuteTasksStep
    \/ \E k \in 1..MaxTasks, ok \in BOOLEAN : AsyncFinish(k, ok)
    \/ ProcessAsyncTask
    \/ \E ok \in BOOLEAN : ExecuteSync(ok)
    \/ ExecuteTasksEnd
    \/ ExecuteTasksFinish
    \/ \E tid \in 0..MaxTasks, inp \in ReplayInputs : ReplayFromTask(tid, inp)
    \/ ReplayStep
    \/ \E ok \in BOOLEAN : ReplaySync(ok)
    \/ ReplayEnd
    \/ ReplayFinish
    \/ NewProcess

Spec == Init /\ [][Next]_vars

\* Constructor arguments for the specification of longer call sequences: two
\* agents, the first of which may delegate, taking the tasks in turn (or, in a
\* hierarchical crew, no task with an agent); no explicit context; one call
\* more than in Spec.
InitCalls ==
    /\ process \in {sequential, hierarchical}
    /\ agents = Roster(MaxAgents)
    /\ allow_delegation = [a \in 1..MaxAgents |-> a = 1]
    /\ \E n \in 0..MaxTasks :
       \E asg \in {[i \in 1..n |-> ((i - 1) % MaxAgents) + 1],
                    [i \in 1..n |-> IF process = hierarchical THEN 0
                                     ELSE ((i - 1) % MaxAgents) + 1]} :
       \E fl \in [1..n -> BOOLEAN] :
          tasks = [i \in 1..n |->
                     [async_execution |-> fl[i], agent |-> asg[i], context |-> {}]]
    /\ manager_arg = [agent |-> IF process = hierarchical THEN SuppliedManager ELSE 0,
                      tools |-> <<>>]
    /\ manager_llm = FALSE
    /\ calls_left = MaxOps + 1
    /\ PlainCrew
    /\ FreshCrew

SpecCalls == InitCalls /\ [][Next]_vars

\* The usage summaries an agent may report: each key within the bound.
Summaries == [UsageKeys -> 0..MaxCount]

\* Constructor arguments for the specification of usage and rate limit: a
\* crew of synchronous tasks without explicit context that the agents take in
\* turn, with or without max_rpm; the workers and the manager of a
\* hierarchical crew report any summaries; the caller makes one call.
InitUsage ==
    /\ process \in {sequential, hierarchical}
    /\ max_rpm \in BOOLEAN
    /\ \E na \in 1..MaxAgents :
          /\ agents = Roster(na)
          /\ allow_delegation = [a \in 1..na |-> FALSE]
          /\ \E n \in 1..MaxTasks :
                tasks = [i \in 1..n |->
                           [async_execution |-> FALSE,
                            agent |-> ((i - 1) % na) + 1,
                            context |-> {}]]
          /\ \E m \in IF process = hierarchical THEN {0, SuppliedManager} ELSE {0} :
                /\ manager_arg = [agent |-> m, tools |-> <<>>]
                /\ manager_llm = (process = hierarchical /\ m = 0)
                /\ \E reporting \in {(1..na) \cup
                                      IF process = hierarchical
                                      THEN {IF m = 0 THEN DefaultManager ELSE m}
                                      ELSE {}} :
                   \E f \in [reporting -> Summaries] :
                      token_process = [a \in AgentIds |->
                                          IF a \in reporting THEN f[a] ELSE ZeroUsage]
    /\ calls_left = 1
    /\ FreshCrew

NextUsage ==
    \/ Construct
    \/ \E inp \in KickoffInputs : Kickoff(inp)
    \/ ExecuteTasksStep
    \/ \E ok \in BOOLEAN : ExecuteSync(ok)
    \/ ExecuteTasksEnd
    \/ ExecuteTasksFinish

SpecUsage == InitUsage /\ [][NextUsage]_vars

\* ------------------------------------------------ kickoff_for_each_async
\* The crew variables above stand for the first copy, crew_copies[0], and the
\* call variables for the run of it that gather awaits. Every other run the
\* call starts is followed only through what it does to the two logs: the
\* checkpoint file CREW_TASKS_OUTPUT_FILE, one path for every crew of the
\* process, and the _execution_logs of the copy it runs on.

\* The inputs lists a caller passes.
BatchInputs ==
    UNION {[1..n -> {"x", "y"}] : n \in 1..MaxInputs}

\* The runs the two `tasks = [asyncio.create_task(...)]` statements start, less
\* the awaited run of the first copy: the first list has one per input, and so
\* has the second, which replaces it and is the one gather awaits.
created_runs(ins) ==
    [k \in 1..(2 * Len(ins) - 1) |->
        LET c == IF k <= Len(ins) THEN k ELSE k - Len(ins) + 1
        IN  [copy |-> c, input |-> ins[c], pc |-> "created", next |-> 0]]

\* Task.copy gives the tasks of a copy ids of their own.
copy_task_id(c, i) == i + (c - 1) * (MaxTasks + 1)

\* The log dict a run that is not followed stores for its task i; of the
\* output only the description and the agent are kept.
peer_log_entry(r, i) ==
    LET a == agent_to_use(i, live_manager)
    IN  [task_id |-> copy_task_id(peers[r].copy, i),
         output |-> [description |-> <<i, peers[r].input>>,
                     agent |-> a,
                     raw |-> << <<i, peers[r].input>>, a >>],
         task_index |-> i,
         inputs |-> peers[r].input,
         timestamp |-> clock + 1,
         was_replayed |-> FALSE]

\* kickoff_for_each_async, up to the await of gather: the copies and the two
\* lists of asyncio tasks exist, no thread has started.
KickoffForEachAsync(ins) ==
    /\ status = "ok"
    /\ NoCall
    /\ calls_left > 0
    /\ batch_inputs = <<>>
    /\ batch_inputs' = ins
    /\ peers' = created_runs(ins)
    /\ UNCHANGED <<config_vars, crew_vars, status, call_vars, hist_vars, result_vars>>

\* run_crew and kickoff_async of the awaited run of the first copy: the
\* thread enters kickoff with inputs[0].
RunCrew ==
    /\ batch_inputs # <<>>
    /\ Kickoff(batch_inputs[1])

\* Another run enters kickoff: it empties the checkpoint file and the
\* _execution_logs of its copy.
PeerKickoff(r) ==
    /\ r \in 1..Len(peers)
    /\ peers[r].pc = "created"
    /\ peers' = [peers EXCEPT ![r].pc = "running", ![r].next = 1]
    /\ file_log' = <<>>
    /\ execution_logs' = IF peers[r].copy = 1 THEN <<>> ELSE execution_logs
    /\ UNCHANGED <<config_vars, status, manager_agent, manager_tools, task_tools,
                   task_output, crew_inputs, interpolated, clock, call_vars,
                   calls_left, events, run_events, before, result_vars,
                   batch_inputs>>

\* Another run stores the log of its next task (_store_execution_log).
PeerStore(r) ==
    /\ r \in 1..Len(peers)
    /\ peers[r].pc = "running"
    /\ peers[r].next <= Len(tasks)
    /\ LET i == peers[r].next
       IN  /\ file_log' = file_update(file_log, i, peer_log_entry(r, i))
           /\ execution_logs' = IF peers[r].copy = 1
                                 THEN logs_update(execution_logs, i, peer_log_entry(r, i))
                                 ELSE execution_logs
           /\ peers' = [peers EXCEPT ![r].next = i + 1]
    /\ clock' = clock + 1
    /\ UNCHANGED <<config_vars, status, manager_agent, manager_tools, task_tools,
                   task_output, crew_inputs, interpolated, call_vars,
                   calls_left, events, run_events, before, result_vars,
                   batch_inputs>>

\* Another run returns from kickoff.
PeerFinish(r) ==
    /\ r \in 1..Len(peers)
    /\ peers[r].pc = "running"
    /\ peers[r].next > Len(tasks)
    /\ peers' = [peers EXCEPT ![r].pc = "done"]
    /\ UNCHANGED <<config_vars, crew_vars, status, call_vars, hist_vars, result_vars,
                   batch_inputs>>

\* Constructor arguments for the batch specification: a sequential crew of
\* one agent and synchronous tasks without explicit context; the caller makes
\* one batch call.
InitBatch ==
    /\ process = sequential
    /\ agents = Roster(1)
    /\ allow_delegation = [a \in 1..1 |-> FALSE]
    /\ \E n \in 1..MaxBatchTasks :
          tasks = [i \in 1..n |->
                     [async_execution |-> FALSE, agent |-> 1, context |-> {}]]
    /\ manager_arg = [agent |-> 0, tools |-> <<>>]
    /\ manager_llm = FALSE
    /\ calls_left = 1
    /\ PlainCrew
    /\ FreshCrew

NextBatch ==
    \/ Construct
    \/ \E ins \in BatchInputs : KickoffForEachAsync(ins)
    \/ RunCrew
    \/ \E r \in 1..(2 * MaxInputs) : PeerKickoff(r)
    \/ \E r \in 1..(2 * MaxInputs) : PeerStore(r)
    \/ \E r \in 1..(2 * MaxInputs) : PeerFinish(r)
    \/ ExecuteTasksStep
    \/ \E ok \in BOOLEAN : ExecuteSync(ok)
    \/ ExecuteTasksEnd
    \/ ExecuteTasksFinish

SpecBatch == InitBatch /\ [][NextBatch]_vars

\* Constructor arguments for the specification of manager wiring: a
\* hierarchical crew of synchronous tasks without explicit context, each left
\* to the manager, assigned to the first worker, or assigned to an agent that
\* is not in the agents list (no validator asks for membership); the manager
\* is supplied without tools or built from manager_llm.
InitWiring ==
    /\ process = hierarchical
    /\ \E na \in 1..MaxAgents :
          /\ agents = Roster(na)
          /\ allow_delegation = [a \in (1..na) \cup {Outsider} |-> FALSE]
    /\ \E n \in 1..MaxTasks :
       \E asg \in [1..n -> {0, 1, Outsider}] :
          tasks = [i \in 1..n |->
                     [async_execution |-> FALSE, agent |-> asg[i], context |-> {}]]
    /\ \E m \in {0, SuppliedManager} :
          /\ manager_arg = [agent |-> m, tools |-> <<>>]
          /\ manager_llm = (m = 0)
    /\ calls_left = MaxOps
    /\ PlainCrew
    /\ FreshCrew

NextWiring ==
    \/ Construct
    \/ \E inp \in KickoffInputs : Kickoff(inp)
    \/ ExecuteTasksStep
    \/ \E ok \in BOOLEAN : ExecuteSync(ok)
    \/ ExecuteTasksEnd
    \/ ExecuteTasksFinish
    \/ \E tid \in 0..MaxTasks, inp \in ReplayInputs : ReplayFromTask(tid, inp)
    \/ ReplayStep
    \/ \E ok \in BOOLEAN : ReplaySync(ok)
    \/ ReplayEnd
    \/ ReplayFinish
    \/ NewProcess

SpecWiring == InitWiring /\ [][NextWiring]_vars

\* ================================================================ claims
\* ---- construction (checked under SpecValidate)
Constructed == status # "new"

Async(ts, i) == ts[i].async_execution

\* An asynchronous task i depends on an asynchronous task c before it and no
\* synchronous task lies strictly between the two.
AsyncContextRace(ts) ==
    \E i \in Positions(ts) :
    \E c \in ts[i].context \cap Positions(ts) :
        /\ c < i
        /\ Async(ts, i)
        /\ Async(ts, c)
        /\ ~\E j \in Positions(ts) : c < j /\ j < i /\ ~Async(ts, j)

\* The asynchronous tasks that no synchronous task follows.
AsyncTail(ts) ==
    {i \in Positions(ts) : \A j \in Positions(ts) : j >= i => Async(ts, j)}

\* As AsyncContextRace, for a dependency at any position of the list: the
\* task itself and the tasks after it included.
AsyncContextRaceAnyPosition(ts) ==
    \E i \in Positions(ts) :
    \E c \in ts[i].context \cap Positions(ts) :
        /\ Async(ts, i)
        /\ Async(ts, c)
        /\ ~\E j \in Positions(ts) :
               /\ (c < j /\ j < i) \/ (i < j /\ j < c)
               /\ ~Async(ts, j)

\* C6 (as claimed): the async-context-isolation validator raises exactly
\* when an asynchronous task has, among its context dependencies, an
\* asynchronous task with no synchronous task strictly between the two.
C6_AsyncContextIsolationAnyPosition ==
    Constructed =>
        (validate_async_task_cannot_include_sequential_async_tasks_in_context(tasks) # "ok")
           <=> AsyncContextRaceAnyPosition(tasks)

\* C6 (amended): the async-context-isolation validator raises exactly when an
\* asynchronous task has, among its context dependencies, an earlier
\* asynchronous task with no synchronous task strictly between the two; a
\* crew with such a pair is never constructed, and a crew rejected with this
\* rule's error has such a pair.
C6_AsyncContextIsolation ==
    Constructed =>
        /\ (validate_async_task_cannot_include_sequential_async_tasks_in_context(tasks) # "ok")
              <=> AsyncContextRace(tasks)
        /\ (status = "async_context_error" => AsyncContextRace(tasks))
        /\ (AsyncContextRace(tasks) => status # "ok")

C6_Witness ==
    /\ status = "async_context_error"
    /\ Len(tasks) = 3
    /\ 1 \in tasks[2].context

\* C7 (as claimed): a constructed crew has every context reference at a
\* position strictly less than the position of the referencing task.
C7_ContextStrictlyEarlier ==
    status = "ok" =>
        \A i \in Positions(tasks) :
        \A c \in tasks[i].context \cap Positions(tasks) : c < i

\* C8: the bounded-async-tail validator raises exactly when more than one
\* asynchronous task follows the last synchronous task; asynchronous tasks
\* before the last synchronous task do not count.
C8_BoundedAsyncTail ==
    Constructed =>
        /\ (validate_end_with_at_most_one_async_task(tasks) # "ok")
              <=> Cardinality(AsyncTail(tasks)) > 1
        /\ (status = "async_task_count" => Cardinality(AsyncTail(tasks)) > 1)
        /\ (Cardinality(AsyncTail(tasks)) > 1 => status # "ok")

C8_Witness ==
    /\ status = "ok"
    /\ Len(tasks) = 3
    /\ Async(tasks, 1) /\ ~Async(tasks, 2) /\ Async(tasks, 3)

ManagerInAgents ==
    /\ manager_arg.agent # 0
    /\ \E k \in 1..Len(agents) : agents[k] = manager_arg.agent

\* C9: construction fails (no crew object) whenever a topology rule is
\* violated: a sequential task without agent, an asynchronous task in a
\* hierarchical crew, a supplied manager that is also a worker of a
\* hierarchical crew.
C9_TopologyRulesReject ==
    Constructed =>
        /\ (process = sequential /\ (\E i \in Positions(tasks) : tasks[i].agent = 0)
              => status # "ok")
        /\ (process = hierarchical /\ (\E i \in Positions(tasks) : Async(tasks, i))
              => status # "ok")
        /\ (process = hierarchical /\ ManagerInAgents => status # "ok")

C9_Witness ==
    /\ status = "missing_agent_in_task"
    /\ Len(tasks) >= 2
    /\ tasks[1].agent # 0

\* The six validator rules of the specification.
SixRules ==
    /\ process = sequential => \A i \in Positions(tasks) : tasks[i].agent # 0
    /\ process = hierarchical => \A i \in Positions(tasks) : ~Async(tasks, i)
    /\ Cardinality(AsyncTail(tasks)) <= 1
    /\ ~AsyncContextRace(tasks)
    /\ \A i \in Positions(tasks) :
       \A c \in tasks[i].context \cap Positions(tasks) : c < i
    /\ process = hierarchical => ~ManagerInAgents

\* C10 (as claimed): every configuration that satisfies the six rules is
\* accepted.
C10_SixRulesSuffice ==
    Constructed /\ SixRules => status = "ok"

\* C10 (amended): a configuration that satisfies the six rules is accepted
\* when a hierarchical crew has a manager_llm or a manager agent and the agent
\* list and the task list are not both empty.
C10_SixRulesAndManagerSuffice ==
    Constructed /\ SixRules
      /\ (process = hierarchical => manager_llm \/ manager_arg.agent # 0)
      /\ (Len(tasks) > 0 \/ Len(agents) > 0)
    => status = "ok"

C10_Witness ==
    /\ status = "ok"
    /\ process = hierarchical
    /\ Len(tasks) >= 2
    /\ \E i \in Positions(tasks) : tasks[i].context # {}

\* ---- the engine (checked under Spec)
IsDispatch(e) == e.kind # "failed"

\* The dispatch events of task p in a sequence of events.
DispatchesOf(ev, p) == {m \in 1..Len(ev) : IsDispatch(ev[m]) /\ ev[m].task = p}

\* The checkpoint log holds, at position j, an entry of task j.
Logged(log, j) == j <= Len(log) /\ log[j].task_id = j /\ log[j].task_index = j

\* The asynchronous tasks flushed at the barrier of the synchronous task i:
\* those between the previous synchronous task and i.
Batch(i) == {j \in 1..(i - 1) : \A m \in j..(i - 1) : Async(tasks, m)}

\* The result a deterministic agent returns for a recorded dispatch.
ResultOf(e) ==
    [description |-> <<e.task, e.inputs>>,
     agent |-> e.agent,
     raw |-> << <<e.task, e.inputs>>, e.agent, e.context, e.tools >>]

\* C1: in a live run, when the context of a synchronous task is about to be
\* resolved no asynchronous task is pending and every asynchronous task
\* dispatched before it is in the log at its own position; the log entry of
\* the synchronous task is written after theirs; and a synchronous task
\* without explicit context is dispatched with a context that contains the
\* result of every task flushed at its barrier.
C1_FlushBarrier ==
    mode = "live" =>
        /\ pc = "exec" =>
              /\ futures = <<>>
              /\ \A j \in 1..(task_index - 1) :
                    DispatchesOf(events, j) # {} /\ Async(tasks, j) =>
                       /\ Logged(file_log, j)
                       /\ Logged(execution_logs, j)
        /\ \A m \in 1..Len(events) :
              events[m].kind = "sync" =>
                 LET i == events[m].task
                 IN  /\ Logged(file_log, i) =>
                          \A j \in 1..(i - 1) :
                             /\ Logged(file_log, j)
                             /\ file_log[j].timestamp < file_log[i].timestamp
                     /\ tasks[i].context = {} =>
                          \A j \in Batch(i) :
                             /\ Logged(file_log, j)
                             /\ \E k \in 1..Len(events[m].context) :
                                   events[m].context[k] = file_log[j].output.raw

C1_Witness ==
    /\ mode = "live"
    /\ Len(tasks) = 3
    /\ Async(tasks, 1) /\ Async(tasks, 2) /\ ~Async(tasks, 3)
    /\ tasks[3].context = {}
    /\ Len(file_log) = 3
    /\ \E m \in 1..Len(events) :
          events[m].kind = "sync" /\ events[m].task = 3 /\ Len(events[m].context) = 2

\* C2: when the dispatch loop of a run or of a replay has ended, the rolling
\* result list holds exactly one result, the one of the task at the last
\* position, and the CrewOutput returned carries that result.
C2_FinalResultIsLastTask ==
    pc \in {"finish", "done"} /\ Len(tasks) > 0 =>
        LET n == Len(tasks)
        IN  /\ Len(task_outputs) = 1
            /\ task_outputs[1].description[1] = n
            /\ task_outputs[1] = task_output[n]
            /\ Logged(file_log, n) /\ file_log[n].output = task_outputs[1]
            /\ pc = "done" => crew_output = task_outputs[1]

C2_Witness ==
    /\ pc = "done"
    /\ Len(tasks) = 2
    /\ ~Async(tasks, 1) /\ Async(tasks, 2)
    /\ crew_output.description[1] = 2

\* A replay that completed on the log of a completed live run, with the
\* inputs of that run.
ReplayDoneWithOriginalInputs ==
    /\ pc = "done"
    /\ mode = "replay"
    /\ run_events # <<>>
    /\ interpolated = run_events[1].inputs

\* C3 (as claimed): a completed replay with the original inputs has
\* dispatched every task at a position >= k with the agent, context and tool
\* set of the live run and returns the final result of the live run.
C3_ReplayEquivalence ==
    ReplayDoneWithOriginalInputs =>
        /\ \A p \in start_index..Len(tasks) :
              \A m \in DispatchesOf(events, p) :
              \A n \in DispatchesOf(run_events, p) :
                 /\ events[m].agent = run_events[n].agent
                 /\ events[m].context = run_events[n].context
                 /\ events[m].tools = run_events[n].tools
        /\ \A n \in DispatchesOf(run_events, Len(tasks)) :
              crew_output = ResultOf(run_events[n])

\* The part of C3 about the context alone, for crews without delegation.
C3_ReplaySameContext ==
    ReplayDoneWithOriginalInputs =>
        \A p \in start_index..Len(tasks) :
        \A m \in DispatchesOf(events, p) :
        \A n \in DispatchesOf(run_events, p) :
           events[m].context = run_events[n].context

ReplayDone == pc = "done" /\ mode = "replay"

\* The frame of a completed replay: nothing before start_index is dispatched,
\* the entries before it are those of the log before the replay, the entries
\* from it on were written by the replay, flagged, each at its own position.
ReplayFrame ==
    /\ \A p \in 1..(start_index - 1) :
          /\ DispatchesOf(events, p) = {}
          /\ file_log[p] = before.file_log[p]
    /\ Len(file_log) = Len(tasks)
    /\ \A p \in start_index..Len(tasks) :
          /\ Logged(file_log, p)
          /\ file_log[p].was_replayed
          /\ file_log[p].timestamp > before.clock
          /\ DispatchesOf(events, p) # {}

\* C4 (as claimed): after a replay, the entries before position k are
\* unchanged and have the replay flag unset, the others are written by the
\* replay with the flag set.
C4_ReplayFrameFlagsUnset ==
    ReplayDone =>
        /\ ReplayFrame
        /\ \A p \in 1..(start_index - 1) : ~file_log[p].was_replayed

\* C4 (amended): after a replay, the entries before position k are exactly
\* those the log held before the replay, replay flag included (unset unless an
\* earlier replay set it); the others are written by the replay, flag set.
C4_ReplayFrame ==
    ReplayDone =>
        /\ ReplayFrame
        /\ \A p \in 1..(start_index - 1) :
              file_log[p].was_replayed = before.file_log[p].was_replayed

C4_Witness ==
    /\ ReplayDone
    /\ start_index = 2
    /\ Len(tasks) = 3
    /\ ~file_log[1].was_replayed
    /\ file_log[3].was_replayed

FailedAt(ev, m) == ev[m].kind = "failed"

\* C5 (as claimed): once the agent invocation of the task at position i has
\* failed, no task at a later position is dispatched.
C5_NoDispatchAfterFailure ==
    \A m \in 1..Len(events) :
    \A n \in 1..Len(events) :
        FailedAt(events, m) /\ IsDispatch(events[n]) /\ n > m
           => events[n].task <= events[m].task

AgentErrorRaised == pc = "failed" /\ error = "agent_error"

\* C5 (amended): an agent failure is fatal once it is raised into the run (at
\* execute_sync for a synchronous task, at the flush for an asynchronous one).
\* No task is dispatched twice in a call; raising the error writes nothing to
\* the log; after it, as long as no new call starts, the call stays failed,
\* nothing is dispatched and the log is unchanged; a failed synchronous task
\* is the last task dispatched, and no entry is logged for the failed task.
C5_FailureIsFatal ==
    /\ [](\A p \in Positions(tasks) : Cardinality(DispatchesOf(events, p)) <= 1)
    /\ [](AgentErrorRaised =>
             \A m \in 1..Len(events) :
                /\ FailedAt(events, m) /\ ~Async(tasks, events[m].task) =>
                      \A n \in 1..Len(events) :
                         IsDispatch(events[n]) => events[n].task <= events[m].task
                /\ FailedAt(events, m) =>
                      ~\E k \in 1..Len(file_log) :
                          /\ file_log[k].task_id = events[m].task
                          /\ file_log[k].timestamp > before.clock)
    /\ [][ /\ (pc # "failed" /\ AgentErrorRaised') =>
                 /\ file_log' = file_log
                 /\ execution_logs' = execution_logs
           /\ (AgentErrorRaised /\ calls_left' = calls_left) =>
                 /\ file_log' = file_log
                 /\ \/ pc' = "idle"
                    \/ /\ AgentErrorRaised'
                       /\ execution_logs' = execution_logs
                       /\ \A p \in Positions(tasks) :
                             DispatchesOf(events', p) = DispatchesOf(events, p) ]_vars

C5_Witness ==
    /\ AgentErrorRaised
    /\ mode = "live"
    /\ Len(file_log) = 2
    /\ \E m \in 1..Len(events) : FailedAt(events, m) /\ events[m].task = 3

\* ---- replay lookup and inputs (checked under Spec)
\* The last call made is a replay whose task id matches no entry of the log
\* it loaded.
ReplayOfUnknownTask ==
    /\ mode = "replay"
    /\ ~\E k \in 1..Len(before.file_log) : before.file_log[k].task_id = before.task_id

\* C11: replay_from_task with a task id that matches no entry of the loaded
\* log fails with the not-found error; no task has been dispatched, and the
\* call leaves the log (file and in memory), the input bindings and the
\* output and tools of every task as they were.
C11_ReplayUnknownTaskFails ==
    /\ [](ReplayOfUnknownTask =>
             /\ pc = "failed"
             /\ error = "task_not_found"
             /\ events = <<>>
             /\ file_log = before.file_log)
    /\ [][ (calls_left' # calls_left /\ ReplayOfUnknownTask') =>
              /\ file_log' = file_log
              /\ execution_logs' = execution_logs
              /\ crew_inputs' = crew_inputs
              /\ interpolated' = interpolated
              /\ task_output' = task_output
              /\ task_tools' = task_tools ]_vars

C11_Witness ==
    /\ ReplayOfUnknownTask
    /\ pc = "failed"
    /\ before.task_id \in Positions(tasks)
    /\ Len(file_log) > 0
    /\ crew_inputs = "x"

\* The last call made is a replay that found its task in the log.
ReplayOfKnownTask == mode = "replay" /\ ~ReplayOfUnknownTask

\* The entry of task j in the file was written by the current call.
WrittenInCall(j) ==
    \E k \in 1..Len(file_log) :
        file_log[k].task_id = j /\ file_log[k].timestamp > before.clock

\* C12: the input bindings of a replay are the inputs of the caller whenever
\* the caller passes some (the empty map included), otherwise those stored
\* in the matched entry; every entry the replay writes records them.
C12_ReplayEffectiveInputs ==
    ReplayOfKnownTask =>
        /\ before.inputs # NoInputs => crew_inputs = before.inputs
        /\ before.inputs = NoInputs =>
              \A k \in 1..Len(before.file_log) :
                 before.file_log[k].task_id = before.task_id =>
                    crew_inputs = before.file_log[k].inputs
        /\ \A k \in 1..Len(file_log) :
              file_log[k].timestamp > before.clock =>
                 file_log[k].inputs = crew_inputs
        /\ \A k \in 1..Len(execution_logs) :
              execution_logs[k].timestamp > before.clock =>
                 execution_logs[k].inputs = crew_inputs

C12_Witness ==
    /\ ReplayOfKnownTask
    /\ pc = "done"
    /\ before.inputs = EmptyInputs
    /\ before.file_log[1].inputs = "x"
    /\ file_log[Len(file_log)].inputs = EmptyInputs
    /\ file_log[Len(file_log)].was_replayed

\* ---- flush order and context (checked under Spec)
\* C13: a flush takes the pending results in the order in which the tasks
\* were enqueued, which is position order, whatever the order in which the
\* threads end: the results collected so far are those of the first handles
\* of the list, and the entry of an asynchronous task is written in a call
\* only after the entry of every asynchronous task dispatched before it.
C13_FlushInEnqueueOrder ==
    /\ \A k1 \in 1..Len(futures) : \A k2 \in 1..Len(futures) :
          k1 < k2 => futures[k1].task < futures[k2].task
    /\ pc \in {"flush", "final_flush"} =>
          \A k \in 1..Len(flushed) : flushed[k] = futures[k].result
    /\ \A m \in 1..Len(events) : \A n \in 1..Len(events) :
          /\ m < n
          /\ events[m].kind = "async"
          /\ events[n].kind = "async"
          /\ WrittenInCall(events[n].task)
          => \E k1 \in 1..Len(file_log) : \E k2 \in 1..Len(file_log) :
                /\ file_log[k1].task_id = events[m].task
                /\ file_log[k2].task_id = events[n].task
                /\ file_log[k1].timestamp > before.clock
                /\ file_log[k1].timestamp < file_log[k2].timestamp

C13_Witness ==
    /\ pc \in {"flush", "final_flush"}
    /\ Len(futures) = 2
    /\ futures[2].finished = 1
    /\ futures[1].finished = 2
    /\ Len(flushed) = 1
    /\ flushed[1] = futures[1].result
    /\ WrittenInCall(futures[1].task)
    /\ ~WrittenInCall(futures[2].task)

\* C14 (as claimed): a synchronous task without explicit context is
\* dispatched with the raw outputs of all the results flushed so far in the
\* run, in flush order.
C14_ContextIsAllFlushedResults ==
    mode = "live" =>
        \A m \in 1..Len(events) :
           LET i == events[m].task
           IN  /\ events[m].kind = "sync"
               /\ tasks[i].context = {}
               /\ \A j \in 1..(i - 1) : Logged(file_log, j)
               => events[m].context = [j \in 1..(i - 1) |-> file_log[j].output.raw]

\* ---- delegation (checked under Spec)
\* C16: the delegation tools a task holds never address the agent of the
\* task, and a task holds some only if its agent may delegate and the crew
\* has at least two agents.
C16_NoSelfDelegation ==
    \A i \in Positions(tasks) :
    \A k \in 1..Len(task_tools[i]) :
        LET target == task_tools[i][k].delegate_to
        IN  target # 0 =>
               /\ target # tasks[i].agent
               /\ tasks[i].agent # 0
               /\ allow_delegation[tasks[i].agent]
               /\ Len(agents) >= 2
               /\ \E x \in 1..Len(agents) : agents[x] = target

C16_Witness ==
    /\ Len(agents) = 2
    /\ Len(tasks) >= 2
    /\ tasks[2].agent = 2
    /\ task_tools[2] = <<[delegate_to |-> 1]>>
    /\ mode = "replay"

\* ---- usage and rate limit (checked under SpecUsage)
\* The sum of one key over the summaries of the worker agents from the k-th on.
RECURSIVE WorkersTotal(_, _)
WorkersTotal(key, k) ==
    IF k > Len(agents) THEN 0
    ELSE token_process[agents[k]][key] + WorkersTotal(key, k + 1)

\* The sum of one key over the worker agents and the manager when there is one.
UsageTotal(key) ==
    WorkersTotal(key, 1) +
    (IF manager_agent # 0 THEN token_process[manager_agent][key] ELSE 0)

\* C15 (as claimed): after a run, CrewOutput.token_usage and
\* Crew.usage_metrics both hold, for each key, the sum over the worker agents
\* plus the manager agent when one is present.
C15_UsageTotals ==
    pc = "done" /\ mode = "live" =>
        \A key \in UsageKeys :
            /\ crew_token_usage[1][key] = UsageTotal(key)
            /\ usage_metrics[1][key] = UsageTotal(key)

\* C19 (as claimed): with a rate limiter, the run stops it exactly once when
\* it ends, on success and on a fatal agent failure.
C19_RateLimiterStoppedOnce ==
    max_rpm =>
        /\ pc = "done" => rpm_stops = 1
        /\ AgentErrorRaised => rpm_stops = 1

\* ---- CrewOutput.tasks_output (checked under Spec)
\* The current call is a run on an object as constructed, with the inputs of
\* the first run completed on such an object.
SecondRunOfSameCrew ==
    /\ mode = "live"
    /\ before.fresh
    /\ first_run # <<>>
    /\ first_run[1].inputs = before.inputs

\* C20: the tasks_output a run or replay returns lists one result per task,
\* in position order (none of its own for the manager), and a run on an
\* identical crew with identical inputs returns the same sequence, whatever
\* the order in which the threads of asynchronous tasks end.
C20_TasksOutputPositional ==
    pc = "done" =>
        /\ Len(crew_tasks_output) = Len(tasks)
        /\ \A i \in Positions(tasks) :
              /\ crew_tasks_output[i].description[1] = i
              /\ crew_tasks_output[i] = task_output[i]
        /\ SecondRunOfSameCrew => crew_tasks_output = first_run[1].tasks_output

C20_Witness ==
    /\ pc = "done"
    /\ SecondRunOfSameCrew
    /\ calls_left = 0
    /\ Len(tasks) = 3
    /\ Async(tasks, 1) /\ Async(tasks, 2) /\ ~Async(tasks, 3)
    /\ Len(crew_tasks_output) = 3

\* ---- batch invocations (checked under SpecBatch)
\* The awaited run of the first copy is executing: its thread is inside kickoff.
MainRunning == batch_inputs # <<>> /\ pc \notin {"idle", "done", "failed"}

\* The number of runs the batch call has created for copy c.
RunsOf(c) ==
    Cardinality({r \in 1..Len(peers) : peers[r].copy = c}) + (IF c = 1 THEN 1 ELSE 0)

\* Every run of the batch call has returned.
BatchOver ==
    /\ batch_inputs # <<>>
    /\ pc \in {"done", "failed"}
    /\ \A r \in 1..Len(peers) : peers[r].pc = "done"

\* C17 (as claimed): when a batch call is over, the checkpoint log of the
\* first copy holds that copy's own entries and no other: one entry per task,
\* each recording the input set of the copy.
C17_OwnLogOnly ==
    BatchOver /\ pc = "done" =>
        /\ Len(file_log) = Len(tasks)
        /\ \A j \in 1..Len(file_log) :
              /\ file_log[j].task_index = j
              /\ file_log[j].inputs = batch_inputs[1]

\* C18 (as claimed): a batch call creates exactly one run per input, and no
\* two runs execute at the same time on one copy.
C18_OneRunPerCopy ==
    batch_inputs # <<>> =>
        /\ \A c \in 1..Len(batch_inputs) : RunsOf(c) = 1
        /\ \A r \in 1..Len(peers) :
              peers[r].pc = "running" =>
                 /\ ~(peers[r].copy = 1 /\ MainRunning)
                 /\ \A q \in 1..Len(peers) :
                       q # r /\ peers[q].pc = "running" => peers[q].copy # peers[r].copy

\* ---- the end of a run (checked under Spec)
\* C21: a run or a replay whose dispatch loop ends with no task result fails
\* with an error: a call that returned has a CrewOutput made from at least
\* one task result, and no call on a crew without tasks returns.
C21_NoResultFails ==
    /\ pc = "finish" /\ Len(task_outputs) = 0 => crew_output = NoOutput
    /\ pc = "done" =>
          /\ Len(task_outputs) > 0
          /\ crew_output = task_outputs[1]
          /\ crew_output # NoOutput
          /\ Len(tasks) > 0

C21_Witness ==
    /\ status = "ok"
    /\ Len(tasks) = 0
    /\ mode = "live"
    /\ pc = "failed"
    /\ error = "IndexError"
    /\ task_outputs = <<>>
    /\ crew_output = NoOutput

\* ---- manager assembly (checked under Spec)
\* A call begins: kickoff, or replay_from_task.
CallBegins == calls_left' < calls_left

\* C22: a supplied manager agent that carries tools is accepted by the
\* constructor, and a hierarchical run, or a replay whose task is found,
\* that begins while the manager carries tools fails at manager assembly
\* with the configuration error, with no task dispatched and no log entry
\* written by the call.
C22_ManagerWithToolsFailsAssembly ==
    /\ [](error = "manager_has_tools" =>
             /\ pc = "failed"
             /\ events = <<>>
             /\ clock = before.clock
             /\ \A j \in 1..Len(file_log) : file_log[j].timestamp <= before.clock)
    /\ [][CallBegins /\ process = hierarchical /\ manager_agent # 0
             /\ Len(manager_tools) > 0
             /\ (mode' = "replay" => find_task_index(before'.task_id, file_log, 1) # 0)
           => /\ pc' = "failed"
              /\ error' = "manager_has_tools"
              /\ events' = <<>>
              /\ clock' = clock
              /\ file_log' = IF mode' = "live" THEN <<>> ELSE file_log]_vars

C22_Witness ==
    /\ status = "ok"
    /\ process = hierarchical
    /\ manager_arg.agent = SuppliedManager
    /\ manager_arg.tools # <<>>
    /\ mode = "live"
    /\ pc = "failed"
    /\ error = "manager_has_tools"
    /\ events = <<>>
    /\ file_log = <<>>

\* ---- dispatch of an asynchronous task (checked under Spec)
\* The step dispatches an asynchronous task: a handle joins the pending buffer.
AsyncDispatched == Len(futures') = Len(futures) + 1

\* The step writes a log entry of task i.
EntryWritten(i) ==
    /\ clock' = clock + 1
    /\ \E k \in 1..Len(file_log') :
          file_log'[k].task_id = i /\ file_log'[k].timestamp = clock'

\* C23 (as claimed): an asynchronous task is dispatched with no context
\* resolved for it.
C23_NoContextAtAsyncDispatch ==
    \A m \in 1..Len(events) :
        events[m].kind = "async" => events[m].context = <<>>

\* C23 (amended): the dispatch of an asynchronous task resolves its context
\* from the results the run holds at that moment, starts the task with it
\* and appends (task, handle, position) to the pending buffer; it writes no
\* log entry, and the entry of an asynchronous task is written only by a
\* flush.
C23_AsyncDispatchOnlyEnqueues ==
    /\ [][AsyncDispatched =>
             LET i == task_index
                 f == futures'[Len(futures')]
                 e == events'[Len(events')]
             IN  /\ SubSeq(futures', 1, Len(futures)) = futures
                 /\ f.task = i /\ f.task_index = i /\ f.state = "running"
                 /\ events' = Append(events, e)
                 /\ e.kind = "async" /\ e.task = i
                 /\ e.context = set_context(i, task_outputs)
                 /\ file_log' = file_log
                 /\ execution_logs' = execution_logs
                 /\ clock' = clock
                 /\ task_output' = task_output
                 /\ task_outputs' = task_outputs]_vars
    /\ [][\A i \in Positions(tasks) :
             Async(tasks, i) /\ EntryWritten(i) => pc \in {"flush", "final_flush"}]_vars

C23_Witness ==
    /\ Len(tasks) >= 2
    /\ ~Async(tasks, 1)
    /\ Async(tasks, 2)
    /\ pc = "loop"
    /\ Len(futures) = 1
    /\ futures[1].task = 2
    /\ events[Len(events)].kind = "async"
    /\ events[Len(events)].context # <<>>
    /\ WrittenInCall(1)
    /\ ~WrittenInCall(2)

\* ---- failure of a pending handle (checked under Spec)
\* The call failed in a flush: the handle after the flushed ones raised.
FlushFailed ==
    /\ pc = "failed"
    /\ error = "agent_error"
    /\ Len(futures) > Len(flushed)
    /\ futures[Len(flushed) + 1].state = "failed"

\* C24: the failure of a pending asynchronous task is raised by the flush,
\* when its handle is resolved; the task at the barrier has been neither
\* dispatched nor logged, the entries of the handles enqueued before the
\* failing one are written, and the call writes no entry for the failing
\* task nor for the ones enqueued after it.
C24_FlushFailure ==
    /\ [](\A m \in 1..Len(events) :
             events[m].kind = "failed" /\ Async(tasks, events[m].task)
             => ~WrittenInCall(events[m].task))
    /\ [](FlushFailed =>
             /\ \A k \in 1..Len(futures) :
                   WrittenInCall(futures[k].task) <=> k <= Len(flushed)
             /\ task_index <= Len(tasks) =>
                   /\ DispatchesOf(events, task_index) = {}
                   /\ ~WrittenInCall(task_index))
    /\ [][error' = "agent_error" /\ pc' = "failed" /\ pc # "failed" /\ futures # <<>>
           => /\ pc \in {"flush", "final_flush"}
              /\ futures[Len(flushed) + 1].state = "failed"
              /\ file_log' = file_log
              /\ events' = events]_vars

C24_Witness ==
    /\ FlushFailed
    /\ Len(futures) = 2
    /\ Len(flushed) = 1
    /\ task_index <= Len(tasks)
    /\ WrittenInCall(futures[1].task)
    /\ ~WrittenInCall(futures[2].task)

\* ---- manager wiring (checked under SpecWiring)
\* The agents the delegation tools in a tool set address.
DelegationTargets(tools) == {tools[k].delegate_to : k \in 1..Len(tools)} \ {0}

\* C25 (as claimed): when a task of a hierarchical run or replay is about to
\* be dispatched, the tools of the manager grant delegation to the agent
\* assigned to the task and to every agent of the agents list, and to no
\* other.
C25_ManagerToolsAtDispatch ==
    process = hierarchical /\ pc = "exec" =>
        LET i == task_index
            roster == {agents[k] : k \in 1..Len(agents)}
            assigned == IF tasks[i].agent # 0 THEN {tasks[i].agent} ELSE {}
        IN  DelegationTargets(manager_tools) = roster \cup assigned

\* ---- the checkpoint log is keyed by position (checked under Spec)
\* C26: during and after any replay the checkpoint log holds, at each index,
\* the entry of the task at that position, hence one entry per position at
\* most; a write of a replay replaces the entry at the position of its task
\* when there is one, appends it at that position otherwise, and leaves
\* every other entry as it was.
C26_ReplayWritesAtOwnPosition ==
    /\ [](mode = "replay" =>
             /\ Len(file_log) <= Len(tasks)
             /\ \A j \in 1..Len(file_log) : Logged(file_log, j))
    /\ [][mode = "replay" /\ clock' = clock + 1 =>
             \E i \in Positions(tasks) :
                /\ Len(file_log') = IF i <= Len(file_log) THEN Len(file_log) ELSE i
                /\ Logged(file_log', i)
                /\ file_log'[i].timestamp = clock'
                /\ file_log'[i].was_replayed
                /\ \A j \in 1..Len(file_log) : j # i => file_log'[j] = file_log[j]]_vars

C26_Witness ==
    /\ mode = "replay"
    /\ pc = "done"
    /\ Len(tasks) >= 2
    /\ Len(before.file_log) = 1
    /\ before.task_id = 1
    /\ Len(file_log) = Len(tasks)
    /\ \A j \in 1..Len(file_log) : Logged(file_log, j) /\ file_log[j].was_replayed

\* ---- explicit context at dispatch (checked under Spec)
\* The step dispatches a task: a dispatch joins the events of the call.
Dispatched ==
    /\ Len(events') > Len(events)
    /\ IsDispatch(events'[Len(events) + 1])

\* C27 (as claimed): when a task with explicit context is dispatched, every
\* task it refers to has a result, and none of them is pending.
C27_ContextResultsPresent ==
    [][Dispatched =>
          LET i == events'[Len(events) + 1].task
          IN  \A c \in tasks[i].context :
                 /\ c \in Positions(tasks)
                 /\ task_output[c] # NoOutput
                 /\ \A k \in 1..Len(futures) : futures[k].task # c]_vars

\* ---- repeated manager assembly (checked under Spec)
\* C28 (as claimed): on a hierarchical crew whose manager was supplied
\* without tools, or is built from manager_llm, no run and no replay fails
\* at manager assembly.
C28_ManagerReassembled ==
    process = hierarchical /\ manager_arg.tools = <<>> => error # "manager_has_tools"

\* ---- a live run (checked under Spec)
\* No agent has failed in the call.
AgentsAllReturn ==
    /\ error # "agent_error"
    /\ \A m \in 1..Len(events) : IsDispatch(events[m])

\* The dispatches of the call so far are in strictly increasing position
\* order, and no synchronous task is at its dispatch while a handle is in
\* the pending buffer.
InPositionOrder ==
    /\ \A m \in 1..Len(events) : \A n \in 1..Len(events) :
          m < n /\ IsDispatch(events[m]) /\ IsDispatch(events[n])
          => events[m].task < events[n].task
    /\ pc = "exec" => futures = <<>>

\* The log of a run that returned: one entry per task, at the position of
\* the task, written by this run with the replay flag unset, and no handle
\* left unflushed.
LogOfTheRun ==
    /\ \A k \in 1..Len(futures) :
          futures[k].state = "done" /\ WrittenInCall(futures[k].task)
    /\ Len(file_log) = Len(tasks)
    /\ \A i \in Positions(tasks) :
          /\ Logged(file_log, i)
          /\ ~file_log[i].was_replayed
          /\ file_log[i].timestamp > before.clock

C30_MemoryLogAgrees ==
    pc = "done" =>
        /\ \A i \in 1..Len(execution_logs) : execution_logs[i].task_index = i
        /\ execution_logs = file_log

\* ---- repeated delegation wiring (checked under Spec)
\* C31 (as claimed): once a task holds delegation tools, no later wiring, of
\* a run or of a replay, adds to them.
C31_WiringIdempotent ==
    [][\A i \in Positions(tasks) :
          Len(task_tools[i]) > 0 => Len(task_tools'[i]) <= Len(task_tools[i])]_vars
====
